---------------------------- MODULE Spec2Model ----------------------------
(***************************************************************************)
(* Model of src/intrinsics/llvm.rs: codegen_llvm_intrinsic_call, the       *)
(* emulation of LLVM intrinsics, and llvm_add_sub.                         *)
(*                                                                         *)
(* One behaviour is one call of codegen_llvm_intrinsic_call.  The state    *)
(* holds the call's inputs, the instructions appended to the current       *)
(* block, the values written to the destination place and to memory, the   *)
(* diagnostics emitted and the panic message when the call aborted.        *)
(* A value written to the destination is the value the emitted             *)
(* instructions compute from the run-time operands.                        *)
(*                                                                         *)
(* Machine integers are bit vectors: a sequence of 0/1 of the type's       *)
(* width, index 1 the least significant bit.  TLC's integers are 32 bits   *)
(* wide, so u32 lanes and u64 operands keep their width this way.          *)
(***************************************************************************)
EXTENDS Integers, Sequences, FiniteSets, TLC

VARIABLES
    pc,           \* "entry", "dispatch", "movemask_loop", "finalizer", "returned", "panicked"
    intrinsic,    \* the intrinsic's name
    args,         \* the operands, by the names the matching arm gives them
    destination,  \* Option<(CPlace, BasicBlock)>
    block,        \* the instructions appended to the current block
    diags,        \* the warnings given to the session
    retWrites,    \* the values written to the destination place, in order
    memWrites,    \* the values written through a pointer, in order
    laneReads,    \* how many lanes of the operands were read
    rules,        \* the arms of intrinsic_match! that ran
    lanesLeft,    \* movemask: the lanes the loop has still to visit
    res,          \* movemask: the loop's accumulator
    flags,        \* llvm_add_sub's cb0 and cb1
    panic         \* the panic message, "" while there is none

vars == <<pc, intrinsic, args, destination, block, diags, retWrites,
          memWrites, laneReads, rules, lanesLeft, res, flags, panic>>

(***************************************************************************)
(* Bounds of the model.                                                    *)
(***************************************************************************)
\* vectors of up to MaxExhLanes lanes are enumerated lane by lane
MaxExhLanes == 4
\* the largest lane count of a movemask operand (one more than the mask holds)
MaxLaneCount == 33
\* shift immediates 0..MaxImm
MaxImm == 35
\* comparison kind codes 0..MaxKind
MaxKind == 9
\* carry/borrow-in values 0..MaxCbIn
MaxCbIn == 2
\* u64 operands n and 2^64-1-n for n in 0..MaxSmall
MaxSmall == 1
\* lanes of the vectors given to the map runner
MaxMapLanes == 2

(***************************************************************************)
(* Types and bit vectors.                                                  *)
(***************************************************************************)
\* lane_ty.bits(), and the width of the scalar types
TypeBits(ty) ==
    CASE ty = "I8"  -> 8
      [] ty = "I32" -> 32
      [] ty = "F32" -> 32
      [] ty = "I64" -> 64
      [] ty = "F64" -> 64
      [] ty = "u64" -> 64
      [] ty = "i64" -> 64
      [] ty = "u8"  -> 8

IsFloat(ty) == ty \in {"F32", "F64"}

Zeros(w) == [i \in 1..w |-> 0]
Ones(w) == [i \in 1..w |-> 1]
\* only the most significant bit set
SignOnly(w) == [i \in 1..w |-> IF i = w THEN 1 ELSE 0]
\* every bit but the most significant set
NotSign(w) == [i \in 1..w |-> IF i = w THEN 0 ELSE 1]
\* the w-bit pattern of a small natural number n (n < 2^30)
BitsOf(n, w) == [i \in 1..w |-> IF i > 30 THEN 0 ELSE (n \div (2^(i-1))) % 2]
BitNot(x) == [i \in 1..Len(x) |-> 1 - x[i]]

\* iconst(ty, n)
iconst(w, n) == BitsOf(n, w)

\* ushr_imm: logical right shift, the amount taken modulo the width
ushr_imm(x, k) ==
    LET w == Len(x)
        s == k % w
    IN  [i \in 1..w |-> IF i + s <= w THEN x[i + s] ELSE 0]

\* ishl_imm: left shift, the amount taken modulo the width
ishl_imm(x, k) ==
    LET w == Len(x)
        s == k % w
    IN  [i \in 1..w |-> IF i - s >= 1 THEN x[i - s] ELSE 0]

\* bor: bitwise or of two values of one width
bor(x, y) == [i \in 1..Len(x) |-> IF x[i] = 1 \/ y[i] = 1 THEN 1 ELSE 0]

\* bitcast: the bit pattern is kept, only the type changes
bitcast(x) == x

\* uextend(ty, x): zero extension to w bits
uextend(w, x) == [i \in 1..w |-> IF i <= Len(x) THEN x[i] ELSE 0]

\* ireduce(ty, x): the low w bits
ireduce(w, x) == [i \in 1..w |-> x[i]]

\* clif_intcast(fx, val, to, signed = false)
clif_intcast(x, w) ==
    IF Len(x) = w THEN x
    ELSE IF Len(x) < w THEN uextend(w, x)
    ELSE ireduce(w, x)

\* the instructions clif_intcast appends
clif_intcast_ops(from, w) ==
    IF from = w THEN <<>>
    ELSE IF from < w THEN <<"uextend">>
    ELSE <<"ireduce">>

(***************************************************************************)
(* crate::num::codegen_checked_int_binop on unsigned operands: the         *)
(* wrapped result and the overflow flag.                                   *)
(***************************************************************************)
RECURSIVE AddFrom(_, _, _, _, _)
AddFrom(a, b, carry, i, acc) ==
    IF i > Len(a) THEN <<acc, carry>>
    ELSE LET s == a[i] + b[i] + carry
         IN  AddFrom(a, b, s \div 2, i + 1, Append(acc, s % 2))

RECURSIVE SubFrom(_, _, _, _, _)
SubFrom(a, b, borrow, i, acc) ==
    IF i > Len(a) THEN <<acc, borrow>>
    ELSE LET d == a[i] - b[i] - borrow
         IN  SubFrom(a, b, IF d < 0 THEN 1 ELSE 0, i + 1, Append(acc, (d + 2) % 2))

\* <<result, overflow flag>>, the flag a bit
codegen_checked_int_binop(bin_op, a, b) ==
    IF bin_op = "Add" THEN AddFrom(a, b, 0, 1, <<>>)
    ELSE SubFrom(a, b, 0, 1, <<>>)

(***************************************************************************)
(* The inputs of a call.                                                   *)
(***************************************************************************)
MoveMaskNames ==
    {"llvm.x86.sse2.pmovmskb.128", "llvm.x86.avx2.pmovmskb", "llvm.x86.sse2.movmsk.pd"}
CmpNames == {"llvm.x86.sse2.cmp.ps", "llvm.x86.sse2.cmp.pd"}
KnownNames ==
    MoveMaskNames \cup CmpNames \cup
    {"llvm.x86.sse2.psrli.d", "llvm.x86.sse2.pslli.d", "llvm.x86.sse2.storeu.dq",
     "llvm.x86.addcarry.64", "llvm.x86.subborrow.64"}
\* names no arm matches (the ones listed after the function)
UnknownNames == {"llvm.x86.sse2.psrli.w", "llvm.x86.avx2.pshuf.b"}

Blocks == {"bb1", "bb2"}
NoDestination == [present |-> FALSE, target |-> "none"]
Destinations == {NoDestination} \cup {[present |-> TRUE, target |-> b] : b \in Blocks}

\* a vector value: its lane type and its lanes (lane 0 is lanes[1])
Vec(ty, lanes) == [lane_ty |-> ty, lane_count |-> Len(lanes), lanes |-> lanes]

\* every vector of n lanes drawn from S
VecsOf(ty, n, S) == {Vec(ty, l) : l \in [1..n -> S]}

\* lane j (from 0) is `hot`, every other lane `cold`
OneHot(ty, n, j, hot, cold) == Vec(ty, [i \in 1..n |-> IF i = j + 1 THEN hot ELSE cold])

MoveMaskTypes == {"I8", "F32", "F64"}
\* the lane counts of the wide operands: 16 x i8, 32 x i8, and the ones too wide
WideLaneCounts == {16} \cup (32..MaxLaneCount)

\* one lane set and every other clear, and the reverse, at the ends of the vector
OneHots(ty, n) ==
    UNION {{OneHot(ty, n, j, Ones(TypeBits(ty)), Zeros(TypeBits(ty))),
            OneHot(ty, n, j, Zeros(TypeBits(ty)), Ones(TypeBits(ty)))}
              : j \in {0, 1, n - 2, n - 1}}

MoveMaskOperands ==
    UNION {
        (UNION {VecsOf(ty, n, {SignOnly(TypeBits(ty)), NotSign(TypeBits(ty))})
                    : n \in 1..MaxExhLanes})
        \cup (UNION {OneHots(ty, n) : n \in {16, 32}})
        \cup {Vec(ty, [i \in 1..n |-> Ones(TypeBits(ty))]) : n \in WideLaneCounts}
      : ty \in MoveMaskTypes }

\* an operand that must be a constant: const (mir_operand_get_const_val is
\* Some), scalar (try_to_bits is Some) and then its bits
ConstOperand(b) == [const |-> TRUE, scalar |-> TRUE, bits |-> b]
NotConst == [const |-> FALSE, scalar |-> FALSE, bits |-> 0]
NotScalar == [const |-> TRUE, scalar |-> FALSE, bits |-> 0]

\* a float lane: NaN, or an ordered value
Float(v) == [nan |-> FALSE, v |-> v]
NaN == [nan |-> TRUE, v |-> 0]
FloatSamples == {NaN, Float(0), Float(1)}

I32Samples == {Zeros(32), Ones(32), SignOnly(32), BitsOf(5, 32)}

MapVectors == UNION {VecsOf("I32", n, I32Samples) : n \in 1..MaxMapLanes}

\* the codes 0..MaxKind and the largest one-byte code
CmpKinds == {ConstOperand(c) : c \in (0..MaxKind) \cup {255}} \cup {NotConst, NotScalar}

CmpCalls ==
    (UNION {{[x |-> x, y |-> y, kind |-> k] :
                x \in VecsOf("F32", n, FloatSamples),
                y \in VecsOf("F32", n, FloatSamples),
                k \in CmpKinds} : n \in 1..MaxMapLanes})
    \cup
    \* operands of two layouts
    {[x |-> Vec("F32", <<Float(0)>>), y |-> Vec("F32", <<Float(0), NaN>>), kind |-> k]
        : k \in CmpKinds}
    \cup
    \* integer lanes reaching the float-only compare
    {[x |-> Vec("I32", <<Float(0)>>), y |-> Vec("I32", <<Float(1)>>), kind |-> k]
        : k \in CmpKinds}

ShiftCalls ==
    {[a |-> a, imm8 |-> k] :
        a \in MapVectors,
        \* 0..MaxImm, and immediates that `as u8` would wrap below 32
        k \in {ConstOperand(c) : c \in (0..MaxImm) \cup {255, 256, 259}}
                 \cup {NotConst, NotScalar}}

U64Samples ==
    {BitsOf(n, 64) : n \in 0..MaxSmall} \cup {BitNot(BitsOf(n, 64)) : n \in 0..MaxSmall}
    \cup {SignOnly(64), NotSign(64)}

Scalar(ty, bits) == [ty |-> ty, bits |-> bits]

AddSubCalls ==
    {[cb_in |-> BitsOf(c, 8), a |-> Scalar("u64", a), b |-> Scalar("u64", b)] :
        c \in 0..MaxCbIn, a \in U64Samples, b \in U64Samples}
    \cup
    \* an operand that is not a u64
    {[cb_in |-> BitsOf(c, 8), a |-> Scalar(ta, Ones(64)), b |-> Scalar(tb, BitsOf(1, 64))] :
        c \in 0..1, ta \in {"u64", "i64"}, tb \in {"u64", "i64"}}

StoreCalls == {[mem_addr |-> p, a |-> a] : p \in {0, 8}, a \in MapVectors}

Calls ==
    {[intrinsic |-> n, args |-> [a |-> a]] : n \in MoveMaskNames, a \in MoveMaskOperands}
    \cup {[intrinsic |-> n, args |-> c] : n \in CmpNames, c \in CmpCalls}
    \cup {[intrinsic |-> n, args |-> c] :
             n \in {"llvm.x86.sse2.psrli.d", "llvm.x86.sse2.pslli.d"}, c \in ShiftCalls}
    \cup {[intrinsic |-> "llvm.x86.sse2.storeu.dq", args |-> c] : c \in StoreCalls}
    \cup {[intrinsic |-> n, args |-> c] :
             n \in {"llvm.x86.addcarry.64", "llvm.x86.subborrow.64"}, c \in AddSubCalls}
    \cup {[intrinsic |-> n, args |-> [a |-> Vec("I32", <<Ones(32)>>)]] : n \in UnknownNames}

NoFlags == [cb0 |-> <<>>, cb1 |-> <<>>]

Init ==
    /\ \E c \in Calls :
          /\ intrinsic = c.intrinsic
          /\ args = c.args
    /\ destination \in Destinations
    /\ pc = "entry"
    /\ block = <<>>
    /\ diags = <<>>
    /\ retWrites = <<>>
    /\ memWrites = <<>>
    /\ laneReads = 0
    /\ rules = <<>>
    /\ lanesLeft = <<>>
    /\ res = <<>>
    /\ flags = NoFlags
    /\ panic = ""

(***************************************************************************)
(* Instructions of the current block.                                      *)
(***************************************************************************)
Ins(op, arg) == [op |-> op, arg |-> arg]

\* a block is ended by a jump or by a trap
IsTerminator(ins) == ins.op \in {"jump", "trap"}

RECURSIVE Concat(_, _)
Concat(seqs, i) == IF i > Len(seqs) THEN <<>> ELSE seqs[i] \o Concat(seqs, i + 1)

\* what a closure, a lane runner or a lowering gives: a panic message or a
\* value, with the instructions appended and the lanes read up to then
Ok(val, ops, reads) == [panic |-> "", val |-> val, ops |-> ops, reads |-> reads]
Panicked(msg, ops, reads) == [panic |-> msg, val |-> <<>>, ops |-> ops, reads |-> reads]

(***************************************************************************)
(* movemask: llvm.x86.sse2.pmovmskb.128, llvm.x86.avx2.pmovmskb,            *)
(* llvm.x86.sse2.movmsk.pd                                                 *)
(***************************************************************************)
\* mutant: the loop visits the lanes in ascending order
movemask_lane_order_ascending(lane_count) == [k \in 1..lane_count |-> k - 1]

\* (0..lane_count).rev(): the lanes in the order the loop visits them
movemask_lane_order(lane_count) == [k \in 1..lane_count |-> lane_count - k]

\* the loop body: the sign bit of a_lane shifted into the accumulator
movemask_step(acc, a_lane, lane_ty) ==
    LET cast == IF IsFloat(lane_ty) THEN bitcast(a_lane) ELSE a_lane
        a_lane_sign == ushr_imm(cast, TypeBits(lane_ty) - 1)
        sign32 == clif_intcast(a_lane_sign, 32)
    IN  bor(ishl_imm(acc, 1), sign32)

\* the instructions the loop body appends
movemask_step_ops(lane_ty) ==
    (IF IsFloat(lane_ty) THEN <<Ins("bitcast", "")>> ELSE <<>>)
    \o <<Ins("ushr_imm", "")>>
    \o [i \in 1..Len(clif_intcast_ops(TypeBits(lane_ty), 32)) |->
            Ins(clif_intcast_ops(TypeBits(lane_ty), 32)[i], "")]
    \o <<Ins("ishl_imm", ""), Ins("bor", "")>>

(***************************************************************************)
(* The lane runners of crate::intrinsics.                                  *)
(***************************************************************************)
\* the first lane whose closure panicked, 0 when none did
FirstPanic(results) ==
    IF \E i \in 1..Len(results) : results[i].panic # ""
    THEN CHOOSE i \in 1..Len(results) :
            /\ results[i].panic # ""
            /\ \A j \in 1..(i - 1) : results[j].panic = ""
    ELSE 0

\* lanes 0, 1, ... in turn: read the lane(s), run the closure; the output
\* vector is written when every lane is done.  readsPerLane is 1 or 2.
run_lanes(results, readsPerLane) ==
    LET p == FirstPanic(results)
    IN  IF p # 0
        THEN Panicked(results[p].panic,
                      Concat([i \in 1..p |-> results[i].ops], 1),
                      p * readsPerLane)
        ELSE Ok([i \in 1..Len(results) |-> results[i].val],
                Concat([i \in 1..Len(results) |-> results[i].ops], 1),
                Len(results) * readsPerLane)

simd_for_each_lane(results) == run_lanes(results, 1)

(***************************************************************************)
(* llvm.x86.sse2.cmp.ps, llvm.x86.sse2.cmp.pd                              *)
(***************************************************************************)
\* mutant: the arms for codes 3 and 4 are exchanged
cmp_kind_3_and_4_exchanged(kind) ==
    IF ~kind.const THEN Panicked("llvm.x86.sse2.cmp.* kind not const", <<>>, 0)
    ELSE IF ~kind.scalar THEN Panicked("kind not scalar", <<>>, 0)
    ELSE CASE kind.bits = 0 -> Ok("Equal", <<>>, 0)
           [] kind.bits = 1 -> Ok("LessThan", <<>>, 0)
           [] kind.bits = 2 -> Ok("LessThanOrEqual", <<>>, 0)
           [] kind.bits = 7 -> Panicked("not implemented: neither is NaN", <<>>, 0)
           [] kind.bits = 4 -> Panicked("not implemented: either is NaN", <<>>, 0)
           [] kind.bits = 3 -> Ok("NotEqual", <<>>, 0)
           [] kind.bits = 5 -> Panicked("not implemented: not less than", <<>>, 0)
           [] kind.bits = 6 -> Panicked("not implemented: not less than or equal", <<>>, 0)
           [] OTHER -> Panicked("internal error: entered unreachable code: kind", <<>>, 0)

\* the decoding of the predicate operand: a panic, or the FloatCC in val
cmp_kind(kind) ==
    IF ~kind.const THEN Panicked("llvm.x86.sse2.cmp.* kind not const", <<>>, 0)
    ELSE IF ~kind.scalar THEN Panicked("kind not scalar", <<>>, 0)
    ELSE CASE kind.bits = 0 -> Ok("Equal", <<>>, 0)
           [] kind.bits = 1 -> Ok("LessThan", <<>>, 0)
           [] kind.bits = 2 -> Ok("LessThanOrEqual", <<>>, 0)
           [] kind.bits = 7 -> Panicked("not implemented: neither is NaN", <<>>, 0)
           [] kind.bits = 3 -> Panicked("not implemented: either is NaN", <<>>, 0)
           [] kind.bits = 4 -> Ok("NotEqual", <<>>, 0)
           [] kind.bits = 5 -> Panicked("not implemented: not less than", <<>>, 0)
           [] kind.bits = 6 -> Panicked("not implemented: not less than or equal", <<>>, 0)
           [] OTHER -> Panicked("internal error: entered unreachable code: kind", <<>>, 0)

\* fcmp: an ordered comparison is false on NaN; NotEqual is unordered or unequal
fcmp(cc, x, y) ==
    CASE cc = "Equal" -> ~x.nan /\ ~y.nan /\ x.v = y.v
      [] cc = "LessThan" -> ~x.nan /\ ~y.nan /\ x.v < y.v
      [] cc = "LessThanOrEqual" -> ~x.nan /\ ~y.nan /\ x.v <= y.v
      [] cc = "NotEqual" -> x.nan \/ y.nan \/ x.v # y.v

\* all ones for true, all zeros for false
bool_to_zero_or_max_uint(w, b) == IF b THEN Ones(w) ELSE Zeros(w)

\* the closure given to simd_pair_for_each_lane
cmp_closure(flt_cc, lane_ty, x_lane, y_lane) ==
    IF IsFloat(lane_ty)
    THEN Ok(bool_to_zero_or_max_uint(TypeBits(lane_ty), fcmp(flt_cc, x_lane, y_lane)),
            <<Ins("fcmp", flt_cc), Ins("bool_to_zero_or_max_uint", "")>>, 0)
    ELSE Panicked("internal error: entered unreachable code: lane type", <<>>, 0)

\* both inputs have one layout, then lane by lane
simd_pair_for_each_lane(x, y, flt_cc) ==
    IF x.lane_count # y.lane_count \/ x.lane_ty # y.lane_ty
    THEN Panicked("assertion failed: x.layout() == y.layout()", <<>>, 0)
    ELSE run_lanes([i \in 1..x.lane_count |->
                        cmp_closure(flt_cc, x.lane_ty, x.lanes[i], y.lanes[i])], 2)

cmp_ps_pd(x, y, kind) ==
    LET k == cmp_kind(kind)
    IN  IF k.panic # "" THEN k ELSE simd_pair_for_each_lane(x, y, k.val)

(***************************************************************************)
(* llvm.x86.sse2.psrli.d, llvm.x86.sse2.pslli.d                            *)
(***************************************************************************)
\* imm8 as u8
as_u8(n) == n % 256

psrli_closure(imm8, lane) ==
    IF ~imm8.scalar THEN Panicked("imm8 not scalar", <<>>, 0)
    ELSE IF imm8.bits < 32
         THEN Ok(ushr_imm(lane, as_u8(imm8.bits)), <<Ins("ushr_imm", "")>>, 0)
         ELSE Ok(iconst(32, 0), <<Ins("iconst", "")>>, 0)

\* mutant: the guard lets an immediate of 32 through to ishl_imm
pslli_closure_guard_le_32(imm8, lane) ==
    IF ~imm8.scalar THEN Panicked("imm8 not scalar", <<>>, 0)
    ELSE IF imm8.bits <= 32
         THEN Ok(ishl_imm(lane, as_u8(imm8.bits)), <<Ins("ishl_imm", "")>>, 0)
         ELSE Ok(iconst(32, 0), <<Ins("iconst", "")>>, 0)

pslli_closure(imm8, lane) ==
    IF ~imm8.scalar THEN Panicked("imm8 not scalar", <<>>, 0)
    ELSE IF imm8.bits < 32
         THEN Ok(ishl_imm(lane, as_u8(imm8.bits)), <<Ins("ishl_imm", "")>>, 0)
         ELSE Ok(iconst(32, 0), <<Ins("iconst", "")>>, 0)

psrli_d(a, imm8) ==
    IF ~imm8.const THEN Panicked("llvm.x86.sse2.psrli.d imm8 not const", <<>>, 0)
    ELSE simd_for_each_lane([i \in 1..a.lane_count |-> psrli_closure(imm8, a.lanes[i])])

pslli_d(a, imm8) ==
    IF ~imm8.const THEN Panicked("llvm.x86.sse2.psrli.d imm8 not const", <<>>, 0)
    ELSE simd_for_each_lane([i \in 1..a.lane_count |-> pslli_closure(imm8, a.lanes[i])])

(***************************************************************************)
(* llvm_add_sub: llvm.x86.addcarry.64 and llvm.x86.subborrow.64            *)
(***************************************************************************)
\* a flag as the u8 the result pair holds
Flag(bit) == BitsOf(bit, 8)

\* mutant: the carry-out is the second stage's flag alone
llvm_add_sub_values_cb1_only(bin_op, cb_in, a, b) ==
    LET int0 == codegen_checked_int_binop(bin_op, a, b)
        int1 == codegen_checked_int_binop(bin_op, int0[1], uextend(64, cb_in))
    IN  [cb0 |-> Flag(int0[2]), cb1 |-> Flag(int1[2]), cb_out |-> Flag(int1[2]),
         c |-> int1[1]]

\* mutant: the first stage takes its operands in the other order
llvm_add_sub_values_b_op_a(bin_op, cb_in, a, b) ==
    LET int0 == codegen_checked_int_binop(bin_op, b, a)
        int1 == codegen_checked_int_binop(bin_op, int0[1], uextend(64, cb_in))
    IN  [cb0 |-> Flag(int0[2]), cb1 |-> Flag(int1[2]),
         cb_out |-> bor(Flag(int0[2]), Flag(int1[2])), c |-> int1[1]]

\* mutant: the second stage works on a, not on the first stage's result
llvm_add_sub_values_stage2_on_a(bin_op, cb_in, a, b) ==
    LET int0 == codegen_checked_int_binop(bin_op, a, b)
        int1 == codegen_checked_int_binop(bin_op, a, uextend(64, cb_in))
    IN  [cb0 |-> Flag(int0[2]), cb1 |-> Flag(int1[2]),
         cb_out |-> bor(Flag(int0[2]), Flag(int1[2])), c |-> int1[1]]

\* the two checked operations and the flags: int0, int1, cb0, cb1, cb_out
llvm_add_sub_values(bin_op, cb_in, a, b) ==
    LET int0 == codegen_checked_int_binop(bin_op, a, b)
        c0 == int0[1]
        cb0 == Flag(int0[2])
        cb_in_as_u64 == uextend(64, cb_in)
        int1 == codegen_checked_int_binop(bin_op, c0, cb_in_as_u64)
        c == int1[1]
        cb1 == Flag(int1[2])
        cb_out == bor(cb0, cb1)
    IN  [cb0 |-> cb0, cb1 |-> cb1, cb_out |-> cb_out, c |-> c]

llvm_add_sub(bin_op, cb_in, a, b) ==
    IF a.ty # "u64"
    THEN Panicked("llvm.x86.addcarry.64/llvm.x86.subborrow.64 second operand must be u64",
                  <<>>, 0)
    ELSE IF b.ty # "u64"
    THEN Panicked("llvm.x86.addcarry.64/llvm.x86.subborrow.64 third operand must be u64",
                  <<>>, 0)
    ELSE LET v == llvm_add_sub_values(bin_op, cb_in, a.bits, b.bits)
         IN  Ok(<<v.cb_out, v.c>>,
                <<Ins("checked_binop", bin_op), Ins("uextend", ""),
                  Ins("checked_binop", bin_op), Ins("bor", "")>>,
                0)

(***************************************************************************)
(* codegen_llvm_intrinsic_call                                             *)
(***************************************************************************)
\* let ret = destination.unwrap().0;
Unwrap ==
    /\ pc = "entry"
    /\ IF destination.present
       THEN /\ pc' = "dispatch"
            /\ panic' = panic
       ELSE /\ pc' = "panicked"
            /\ panic' = "called Option::unwrap() on a None value"
    /\ UNCHANGED <<intrinsic, args, destination, block, diags, retWrites,
                   memWrites, laneReads, rules, lanesLeft, res, flags>>

\* an arm that ran to outcome r: its instructions and lane reads, and its
\* panic or the write of its value to ret
Lowered(rule, r) ==
    /\ rules' = Append(rules, rule)
    /\ block' = block \o r.ops
    /\ laneReads' = laneReads + r.reads
    /\ IF r.panic # ""
       THEN /\ pc' = "panicked"
            /\ panic' = r.panic
            /\ retWrites' = retWrites
       ELSE /\ pc' = "finalizer"
            /\ panic' = panic
            /\ retWrites' = Append(retWrites, r.val)
    /\ UNCHANGED <<intrinsic, args, destination, diags, memWrites, lanesLeft, res>>

\* trap_unimplemented(fx, intrinsic): the call is replaced by a trap
trap_unimplemented(msg) == <<Ins("trap", msg)>>

\* trap_unreachable(fx, msg)
trap_unreachable(msg) == <<Ins("trap", msg)>>

\* mutant: the fallback arm warns and appends no trap
Fallback_without_trap ==
    /\ pc = "dispatch"
    /\ intrinsic \notin KnownNames
    /\ diags' = Append(diags, "unsupported llvm intrinsic; replacing with trap")
    /\ rules' = Append(rules, "_")
    /\ pc' = "finalizer"
    /\ UNCHANGED <<intrinsic, args, destination, block, retWrites, memWrites,
                   laneReads, lanesLeft, res, flags, panic>>

\* _ => { warn; trap_unimplemented }
Fallback ==
    /\ pc = "dispatch"
    /\ intrinsic \notin KnownNames
    /\ diags' = Append(diags, "unsupported llvm intrinsic; replacing with trap")
    /\ block' = block \o trap_unimplemented(intrinsic)
    /\ rules' = Append(rules, "_")
    /\ pc' = "finalizer"
    /\ UNCHANGED <<intrinsic, args, destination, retWrites, memWrites, laneReads,
                   lanesLeft, res, flags, panic>>

\* mutant: the lane count is asserted after a result was written
MoveMask_assert_after_write ==
    /\ pc = "dispatch"
    /\ intrinsic \in MoveMaskNames
    /\ rules' = Append(rules, "movemask")
    /\ IF ~(args.a.lane_count <= 32)
       THEN /\ pc' = "panicked"
            /\ panic' = "assertion failed: lane_count <= 32"
            /\ retWrites' = Append(retWrites, iconst(32, 0))
            /\ UNCHANGED <<block, lanesLeft, res>>
       ELSE /\ pc' = "movemask_loop"
            /\ res' = iconst(32, 0)
            /\ block' = Append(block, Ins("iconst", ""))
            /\ lanesLeft' = movemask_lane_order(args.a.lane_count)
            /\ panic' = panic
            /\ retWrites' = retWrites
    /\ UNCHANGED <<intrinsic, args, destination, diags, memWrites, laneReads, flags>>

\* the arm up to the loop: the assertion and the accumulator's iconst
MoveMask ==
    /\ pc = "dispatch"
    /\ intrinsic \in MoveMaskNames
    /\ rules' = Append(rules, "movemask")
    /\ IF ~(args.a.lane_count <= 32)
       THEN /\ pc' = "panicked"
            /\ panic' = "assertion failed: lane_count <= 32"
            /\ UNCHANGED <<block, lanesLeft, res>>
       ELSE /\ pc' = "movemask_loop"
            /\ res' = iconst(32, 0)
            /\ block' = Append(block, Ins("iconst", ""))
            /\ lanesLeft' = movemask_lane_order(args.a.lane_count)
            /\ panic' = panic
    /\ UNCHANGED <<intrinsic, args, destination, diags, retWrites, memWrites,
                   laneReads, flags>>

\* one turn of the loop
MoveMaskLane ==
    /\ pc = "movemask_loop"
    /\ lanesLeft # <<>>
    /\ LET lane == Head(lanesLeft)
       IN  res' = movemask_step(res, args.a.lanes[lane + 1], args.a.lane_ty)
    /\ laneReads' = laneReads + 1
    /\ block' = block \o movemask_step_ops(args.a.lane_ty)
    /\ lanesLeft' = Tail(lanesLeft)
    /\ UNCHANGED <<pc, intrinsic, args, destination, diags, retWrites, memWrites,
                   rules, flags, panic>>

\* ret.write_cvalue(fx, res)
MoveMaskWrite ==
    /\ pc = "movemask_loop"
    /\ lanesLeft = <<>>
    /\ retWrites' = Append(retWrites, res)
    /\ pc' = "finalizer"
    /\ UNCHANGED <<intrinsic, args, destination, block, diags, memWrites, laneReads,
                   rules, lanesLeft, res, flags, panic>>

CmpPsPd ==
    /\ pc = "dispatch"
    /\ intrinsic \in CmpNames
    /\ Lowered("cmp", cmp_ps_pd(args.x, args.y, args.kind))
    /\ UNCHANGED flags

PsrliD ==
    /\ pc = "dispatch"
    /\ intrinsic = "llvm.x86.sse2.psrli.d"
    /\ Lowered("psrli.d", psrli_d(args.a, args.imm8))
    /\ UNCHANGED flags

PslliD ==
    /\ pc = "dispatch"
    /\ intrinsic = "llvm.x86.sse2.pslli.d"
    /\ Lowered("pslli.d", pslli_d(args.a, args.imm8))
    /\ UNCHANGED flags

\* the vector is written through mem_addr, ret is left alone
StoreuDq ==
    /\ pc = "dispatch"
    /\ intrinsic = "llvm.x86.sse2.storeu.dq"
    /\ memWrites' = Append(memWrites, [addr |-> args.mem_addr, val |-> args.a.lanes])
    /\ rules' = Append(rules, "storeu.dq")
    /\ pc' = "finalizer"
    /\ UNCHANGED <<intrinsic, args, destination, block, diags, retWrites, laneReads,
                   lanesLeft, res, flags, panic>>

\* the arm calls llvm_add_sub; the flags are kept when it did not panic
AddSub(bin_op) ==
    LET r == llvm_add_sub(bin_op, args.cb_in, args.a, args.b)
    IN  /\ Lowered(bin_op, r)
        /\ flags' = IF r.panic # "" THEN flags
                    ELSE LET v == llvm_add_sub_values(bin_op, args.cb_in,
                                                      args.a.bits, args.b.bits)
                         IN  [cb0 |-> v.cb0, cb1 |-> v.cb1]

AddCarry64 ==
    /\ pc = "dispatch"
    /\ intrinsic = "llvm.x86.addcarry.64"
    /\ AddSub("Add")

SubBorrow64 ==
    /\ pc = "dispatch"
    /\ intrinsic = "llvm.x86.subborrow.64"
    /\ AddSub("Sub")

\* if let Some((_, dest)) = destination { jump } else { trap_unreachable }
Finalizer ==
    /\ pc = "finalizer"
    /\ block' = block \o
                  (IF destination.present
                   THEN <<Ins("jump", destination.target)>>
                   ELSE trap_unreachable("[corruption] Diverging intrinsic returned."))
    /\ pc' = "returned"
    /\ UNCHANGED <<intrinsic, args, destination, diags, retWrites, memWrites,
                   laneReads, rules, lanesLeft, res, flags, panic>>

Next ==
    \/ Unwrap
    \/ Fallback
    \/ MoveMask
    \/ MoveMaskLane
    \/ MoveMaskWrite
    \/ CmpPsPd
    \/ PsrliD
    \/ PslliD
    \/ StoreuDq
    \/ AddCarry64
    \/ SubBorrow64
    \/ Finalizer

Spec == Init /\ [][Next]_vars

(***************************************************************************)
(* Exact arithmetic, for stating the results: a 64-bit pattern as four     *)
(* 16-bit limbs (least significant first), sums with every carry kept.     *)
(***************************************************************************)
LimbBase == 2^16

RECURSIVE Value(_, _)
\* the number whose bits are x[i..Len(x)], for patterns of at most 30 bits
Value(x, i) == IF i > Len(x) THEN 0 ELSE x[i] + 2 * Value(x, i + 1)

Limbs(x) == [j \in 1..(Len(x) \div 16) |-> Value(SubSeq(x, 16 * (j - 1) + 1, 16 * j), 1)]

RECURSIVE ExactAddFrom(_, _, _, _)
ExactAddFrom(al, bl, carry, j) ==
    IF j > Len(al) THEN <<carry>>
    ELSE LET t == al[j] + bl[j] + carry
         IN  <<t % LimbBase>> \o ExactAddFrom(al, bl, t \div LimbBase, j + 1)

\* al + bl + c, one limb longer than the operands
ExactAdd(al, bl, c) == ExactAddFrom(al, bl, c, 1)

\* x < y for two numbers of as many limbs
LimbLess(x, y) ==
    \E j \in 1..Len(x) : x[j] < y[j] /\ \A k \in (j + 1)..Len(x) : x[k] = y[k]

Lowering == pc \in {"finalizer", "returned"}
ShiftNames == {"llvm.x86.sse2.psrli.d", "llvm.x86.sse2.pslli.d"}
AddSubNames == {"llvm.x86.addcarry.64", "llvm.x86.subborrow.64"}
Terminators == {i \in 1..Len(block) : IsTerminator(block[i])}
HasOp(op) == \E i \in 1..Len(block) : block[i].op = op

(***************************************************************************)
(* C1: once a movemask lowering (pmovmskb.128, avx2.pmovmskb, movmsk.pd)   *)
(* has written its result, the result is one 32-bit value and its bit i    *)
(* is the most significant bit of input lane i, for every lane i of the    *)
(* operand (at most 32 lanes).                                             *)
(***************************************************************************)
C1_MoveMaskSignBits ==
    (intrinsic \in MoveMaskNames /\ Lowering) =>
        /\ Len(retWrites) = 1
        /\ Len(retWrites[1]) = 32
        /\ args.a.lane_count <= 32
        /\ \A i \in 0..(args.a.lane_count - 1) :
              retWrites[1][i + 1] = args.a.lanes[i + 1][TypeBits(args.a.lane_ty)]

\* four 32-bit lanes [neg, pos, pos, neg] give the mask 0b1001
C1_Witness ==
    /\ intrinsic \in MoveMaskNames
    /\ pc = "returned"
    /\ args.a = Vec("F32", <<SignOnly(32), NotSign(32), NotSign(32), SignOnly(32)>>)
    /\ retWrites = <<BitsOf(9, 32)>>

(***************************************************************************)
(* C2: once psrli.d / pslli.d has written its result for the constant      *)
(* immediate k, the output has as many lanes as the input and, bit by bit, *)
(* each output lane is the input lane shifted logically right (psrli.d)    *)
(* or left (pslli.d) by k within 32 bits when k < 32, and is 0 when        *)
(* k >= 32.                                                                *)
(***************************************************************************)
C2_ShiftByImmediate ==
    (intrinsic \in ShiftNames /\ Lowering) =>
        LET k == args.imm8.bits
            in == args.a.lanes
        IN  /\ args.imm8.const /\ args.imm8.scalar
            /\ Len(retWrites) = 1
            /\ Len(retWrites[1]) = Len(in)
            /\ \A l \in 1..Len(in) :
                  /\ Len(retWrites[1][l]) = 32
                  /\ \A i \in 1..32 :
                        retWrites[1][l][i] =
                            IF k >= 32 THEN 0
                            ELSE IF intrinsic = "llvm.x86.sse2.psrli.d"
                                 THEN (IF i + k <= 32 THEN in[l][i + k] ELSE 0)
                                 ELSE (IF i - k >= 1 THEN in[l][i - k] ELSE 0)

\* shift left by 35 of a vector of non-zero lanes: all-zero, same lane count
C2_Witness ==
    /\ intrinsic = "llvm.x86.sse2.pslli.d"
    /\ pc = "returned"
    /\ args.imm8 = ConstOperand(35)
    /\ args.a.lanes = <<Ones(32), SignOnly(32)>>
    /\ retWrites = << <<Zeros(32), Zeros(32)>> >>

(***************************************************************************)
(* C3: once addcarry.64 has written its result for u64 operands a, b and   *)
(* a carry-in c of 0 or 1, the pair (carry_out, result) it wrote           *)
(* satisfies carry_out * 2^64 + result = a + b + c.                        *)
(***************************************************************************)
C3_AddCarryExact ==
    (intrinsic = "llvm.x86.addcarry.64" /\ Lowering /\ Value(args.cb_in, 1) <= 1) =>
        /\ Len(retWrites) = 1
        /\ Len(retWrites[1][2]) = 64
        /\ Limbs(retWrites[1][2]) \o <<Value(retWrites[1][1], 1)>>
             = ExactAdd(Limbs(args.a.bits), Limbs(args.b.bits), Value(args.cb_in, 1))

\* u64::MAX + 1 + 0 = (carry_out 1, result 0)
C3_Witness ==
    /\ intrinsic = "llvm.x86.addcarry.64"
    /\ pc = "returned"
    /\ args.a.bits = Ones(64) /\ args.b.bits = BitsOf(1, 64) /\ args.cb_in = BitsOf(0, 8)
    /\ retWrites = << <<BitsOf(1, 8), Zeros(64)>> >>

(***************************************************************************)
(* C4: once subborrow.64 has written its result for u64 operands a, b and  *)
(* a borrow-in c of 0 or 1, the result is (a - b - c) mod 2^64, that is    *)
(* result + b + c = a modulo 2^64, and borrow_out is 1 when a < b + c as   *)
(* unbounded integers and 0 otherwise.                                     *)
(***************************************************************************)
C4_SubBorrowExact ==
    (intrinsic = "llvm.x86.subborrow.64" /\ Lowering /\ Value(args.cb_in, 1) <= 1) =>
        LET c == Value(args.cb_in, 1)
            al == Limbs(args.a.bits)
            bl == Limbs(args.b.bits)
        IN  /\ Len(retWrites) = 1
            /\ Len(retWrites[1][2]) = 64
            /\ SubSeq(ExactAdd(Limbs(retWrites[1][2]), bl, c), 1, 4) = al
            /\ Value(retWrites[1][1], 1) =
                  IF LimbLess(al \o <<0>>, ExactAdd(bl, Limbs(Zeros(64)), c)) THEN 1 ELSE 0

\* 0 - u64::MAX - 1 borrows and leaves 0
C4_Witness ==
    /\ intrinsic = "llvm.x86.subborrow.64"
    /\ pc = "returned"
    /\ args.a.bits = Zeros(64) /\ args.b.bits = Ones(64) /\ args.cb_in = BitsOf(1, 8)
    /\ retWrites = << <<BitsOf(1, 8), Zeros(64)>> >>

(***************************************************************************)
(* C5: once the fallback arm has run for a name no arm matches, exactly    *)
(* one diagnostic was emitted, the first instruction appended for the call *)
(* is the trap naming the intrinsic (control reaching the call site        *)
(* traps), and no lane logic ran: no lane was read, nothing was written to *)
(* the destination or to memory, no other arm ran, and the block holds     *)
(* nothing but the trap and the finalizer's jump.                          *)
(***************************************************************************)
C5_FallbackTraps ==
    (intrinsic \notin KnownNames /\ Lowering) =>
        /\ Len(diags) = 1
        /\ Len(block) >= 1
        /\ block[1] = Ins("trap", intrinsic)
        /\ laneReads = 0
        /\ retWrites = <<>>
        /\ memWrites = <<>>
        /\ rules = <<"_">>
        /\ \A i \in 1..Len(block) : block[i].op \in {"trap", "jump"}

C5_Witness ==
    /\ intrinsic = "llvm.x86.avx2.pshuf.b"
    /\ pc = "returned"
    /\ Len(diags) = 1
    /\ block[1].op = "trap"

(***************************************************************************)
(* C6: for every call that returns, exactly one terminator (a jump or a    *)
(* trap) was appended to the block, it is the last instruction appended,   *)
(* and the destination was written at most once.                           *)
(***************************************************************************)
C6_OneTerminatorLast ==
    pc = "returned" =>
        /\ Cardinality(Terminators) = 1
        /\ IsTerminator(block[Len(block)])
        /\ Len(retWrites) <= 1

(***************************************************************************)
(* C7: a call with no destination is not aborted before its lowering; it   *)
(* reaches the finalizer, which appends the unreachable trap carrying the  *)
(* corruption message; and a recognized intrinsic with a destination ends  *)
(* in a jump without arguments to the destination's successor block.       *)
(***************************************************************************)
C7_FinalizerByDestination ==
    /\ (~destination.present /\ pc = "panicked") => rules # <<>>
    /\ (~destination.present /\ pc = "returned") =>
          block[Len(block)] = Ins("trap", "[corruption] Diverging intrinsic returned.")
    /\ (destination.present /\ intrinsic \in KnownNames /\ pc = "returned") =>
          block[Len(block)] = Ins("jump", destination.target)

(***************************************************************************)
(* C8: once the compare arm has run with a constant scalar predicate code: *)
(* codes 0, 1, 2, 4 are decoded as Equal, LessThan, LessThanOrEqual,       *)
(* NotEqual (every fcmp appended carries that condition, and a lowering    *)
(* that completes appends one per lane); codes 3, 5, 6, 7 end in a 'not    *)
(* implemented' panic and every other code in an 'unreachable' panic, and  *)
(* in both no fcmp was appended and nothing was written.                   *)
(***************************************************************************)
UnimplementedKinds == {3, 5, 6, 7}
UnimplementedPanics ==
    {"not implemented: neither is NaN", "not implemented: either is NaN",
     "not implemented: not less than", "not implemented: not less than or equal"}
KindCC(k) ==
    CASE k = 0 -> "Equal" [] k = 1 -> "LessThan" [] k = 2 -> "LessThanOrEqual"
      [] k = 4 -> "NotEqual"

C8_CompareKind ==
    (intrinsic \in CmpNames /\ rules # <<>> /\ args.kind.const /\ args.kind.scalar) =>
        LET k == args.kind.bits
        IN  /\ k \in {0, 1, 2, 4} =>
                /\ \A i \in 1..Len(block) :
                      block[i].op = "fcmp" => block[i].arg = KindCC(k)
                /\ Lowering =>
                      Cardinality({i \in 1..Len(block) : block[i].op = "fcmp"})
                          = args.x.lane_count
                /\ pc = "panicked" =>
                      panic \notin UnimplementedPanics
                               \cup {"internal error: entered unreachable code: kind"}
            /\ k \in UnimplementedKinds =>
                /\ pc = "panicked"
                /\ panic \in UnimplementedPanics
                /\ ~HasOp("fcmp")
                /\ retWrites = <<>>
            /\ k \notin 0..7 =>
                /\ pc = "panicked"
                /\ panic = "internal error: entered unreachable code: kind"
                /\ ~HasOp("fcmp")
                /\ retWrites = <<>>

C8_Witness ==
    /\ intrinsic = "llvm.x86.sse2.cmp.ps"
    /\ args.kind = ConstOperand(5)
    /\ args.x.lane_count = 2
    /\ pc = "panicked"
    /\ panic = "not implemented: not less than"
    /\ block = <<>>

(***************************************************************************)
(* C9: when a recognized lowering has panicked (movemask of more than 32   *)
(* lanes, add/sub with an operand that is not a u64, a compare or shift    *)
(* whose immediate is not a constant or cannot be decoded), nothing has    *)
(* been written to the destination and no terminator has been appended.    *)
(***************************************************************************)
C9_AbortBeforeWrite ==
    (pc = "panicked" /\ rules # <<>>) =>
        /\ intrinsic \in KnownNames
        /\ retWrites = <<>>
        /\ Terminators = {}

\* the shift's immediate is a constant but no scalar: the closure panics on
\* the first lane, after that lane was read
C9_Witness ==
    /\ intrinsic = "llvm.x86.sse2.psrli.d"
    /\ args.imm8 = NotScalar
    /\ args.a.lane_count = 2
    /\ pc = "panicked"
    /\ panic = "imm8 not scalar"
    /\ laneReads = 1

(***************************************************************************)
(* C10: once llvm_add_sub has written its result for a carry/borrow-in of  *)
(* 0 or 1, the overflow flags of its two stages are not both set, and the  *)
(* carry/borrow-out written is 0 or 1.                                     *)
(***************************************************************************)
C10_FlagsExclusive ==
    (intrinsic \in AddSubNames /\ Lowering /\ Value(args.cb_in, 1) <= 1) =>
        /\ flags.cb0 \in {Flag(0), Flag(1)}
        /\ flags.cb1 \in {Flag(0), Flag(1)}
        /\ ~(flags.cb0 = Flag(1) /\ flags.cb1 = Flag(1))
        /\ retWrites[1][1] \in {Flag(0), Flag(1)}

\* u64::MAX - u64::MAX - 1: only the second stage borrows
C10_Witness ==
    /\ intrinsic = "llvm.x86.subborrow.64"
    /\ pc = "returned"
    /\ args.a.bits = Ones(64) /\ args.b.bits = Ones(64) /\ args.cb_in = BitsOf(1, 8)
    /\ flags = [cb0 |-> Flag(0), cb1 |-> Flag(1)]

=============================================================================
